---- MODULE Spec2Model ----
(***************************************************************************)
(* Model of generate_captures_html.py: the capture-log and notes-log       *)
(* parsers, the order reconciler (apply_order), the two inline markdown    *)
(* renderers (markdown_to_html in Python, markdownToHtml in the embedded   *)
(* script), render_html, main() with generate_project, and the embedded    *)
(* script's editor and export button.                                      *)
(*                                                                         *)
(* Text is a sequence of one-character strings.  An optional value is a    *)
(* sequence of length 0 (absent, Python None / a missing dict key / a      *)
(* missing DOM node) or 1 (present).                                       *)
(***************************************************************************)
EXTENDS Integers, Sequences, FiniteSets

VARIABLES
    mdText,      \* markdown handed to both renderers
    pyHtml,      \* optional result of markdown_to_html(mdText)
    jsHtml,      \* optional result of markdownToHtml(mdText)
    parsed,      \* capture records as returned by parse_captures
    orderFile,   \* optional text of the order file (absent: no such file)
    captures,    \* optional result of apply_order(parsed, order file)
    capText,     \* text of captures.md
    capOut,      \* optional result of parse_captures(capText)
    notesText,   \* text of notes.md
    notesOut,    \* optional result of parse_notes_markdown(notesText)
    mainChildren,\* the element children of <main class="page">, in document order
    initialNotes,\* the initialNotes object embedded in the page
    editMode,    \* root.classList.contains('edit-mode')
    toggleText,  \* toggle.textContent
    saves,       \* save requests sent so far
    pendingSaves,\* save requests in flight
    failedSaves, \* save requests answered with a failure so far
    alerts,      \* alert() dialogs shown so far
    downloads,   \* downloads started by downloadOrder so far
    lastDownload,\* optional content of the latest download
    exportBtn,   \* the #exportPdf button: its disabled flag and its label
    exportCalls, \* the export handlers suspended on their request, each with its originalText
    exports,     \* export requests sent so far
    opened,      \* windows opened by window.open so far
    argv,        \* the parsed command line of main()
    disk,        \* the screenshots tree: its child directories and the captures.md files
    queue,       \* optional list of projects main() has still to generate
    generated,   \* main()'s count of generated projects
    outputs,     \* the projects whose captures_<project>.html was written, in order
    stderr,      \* the messages printed to sys.stderr
    exitCode     \* optional return value of main()

vars == <<mdText, pyHtml, jsHtml, parsed, orderFile, captures, capText, capOut,
          notesText, notesOut, mainChildren, initialNotes, editMode, toggleText,
          saves, pendingSaves, failedSaves, alerts, downloads, lastDownload,
          exportBtn, exportCalls, exports, opened,
          argv, disk, queue, generated, outputs, stderr, exitCode>>

mdVars == <<mdText, pyHtml, jsHtml>>
orderVars == <<parsed, orderFile, captures>>
capVars == <<capText, capOut>>
notesVars == <<notesText, notesOut>>
editorVars == <<mainChildren, initialNotes, editMode, toggleText, saves,
                pendingSaves, failedSaves, alerts, downloads, lastDownload>>
exportVars == <<exportBtn, exportCalls, exports, opened>>
genVars == <<argv, disk, queue, generated, outputs, stderr, exitCode>>

----------------------------------------------------------------------------
(* Bounds of the model.                                                    *)

MaxMdLen == 4
MaxMdLines == 3
MaxCaptures == 3
MaxOrderLines == 2
MaxCapLines == 4
MaxNoteLines == 4
MaxSaves == 2

----------------------------------------------------------------------------
(* Optional values and text helpers.                                       *)

None == <<>>
Some(v) == <<v>>

Min(S) == CHOOSE x \in S : \A y \in S : x <= y
Max(S) == CHOOSE x \in S : \A y \in S : x >= y

\* str.strip() / String.prototype.trim(): the whitespace of the modelled alphabet
Whitespace == {" ", "\n", "\t"}

Strip(s) ==
    LET keep == {i \in 1..Len(s) : s[i] \notin Whitespace}
    IN  IF keep = {} THEN <<>> ELSE SubSeq(s, Min(keep), Max(keep))

StartsWith(s, p) == Len(s) >= Len(p) /\ SubSeq(s, 1, Len(p)) = p

EndsWith(s, p) == Len(s) >= Len(p) /\ SubSeq(s, Len(s) - Len(p) + 1, Len(s)) = p

\* the pieces of s between its newline characters: String.split(/\r?\n/)
SplitNewline(s) ==
    LET nl == {i \in 1..Len(s) : s[i] = "\n"}
        nth(k) == IF k = 0 THEN 0
                  ELSE IF k > Cardinality(nl) THEN Len(s) + 1
                  ELSE CHOOSE i \in nl : Cardinality({j \in nl : j < i}) = k - 1
    IN  [k \in 1..(Cardinality(nl) + 1) |-> SubSeq(s, nth(k - 1) + 1, nth(k) - 1)]

\* str.splitlines(): no empty last piece after a final newline, [] for ""
SplitLines(s) ==
    LET pieces == SplitNewline(s)
    IN  IF pieces[Len(pieces)] = <<>> THEN SubSeq(pieces, 1, Len(pieces) - 1)
        ELSE pieces

RECURSIVE JoinWith(_, _)
JoinWith(sep, ss) ==
    IF ss = <<>> THEN <<>>
    ELSE IF Len(ss) = 1 THEN ss[1]
    ELSE ss[1] \o sep \o JoinWith(sep, Tail(ss))

\* str.replace(c, r) / String.replace(/c/g, r) for a one-character pattern c
RECURSIVE ReplaceAll(_, _, _)
ReplaceAll(s, c, r) ==
    IF s = <<>> THEN <<>>
    ELSE (IF s[1] = c THEN r ELSE <<s[1]>>) \o ReplaceAll(Tail(s), c, r)

\* re.sub(r"M(.+?)M", "OPEN\1CLOSE", s) and s.replace(/M(.+?)M/g, 'OPEN$1CLOSE'):
\* leftmost match first, the group as short as possible but not empty, '.' not a
\* newline, the scan resuming after each match
RECURSIVE EmphSub(_, _, _, _)
EmphSub(s, mark, open, close) ==
    IF s = <<>> THEN <<>>
    ELSE LET closers == {j \in 3..Len(s) :
                            s[j] = mark /\ \A k \in 2..(j - 1) : s[k] # "\n"}
         IN  IF s[1] = mark /\ closers # {}
             THEN LET j == Min(closers)
                  IN  open \o SubSeq(s, 2, j - 1) \o close
                        \o EmphSub(SubSeq(s, j + 1, Len(s)), mark, open, close)
             ELSE <<s[1]>> \o EmphSub(Tail(s), mark, open, close)

----------------------------------------------------------------------------
(* HTML fragments.                                                         *)

AMP == <<"&", "a", "m", "p", ";">>
LT == <<"&", "l", "t", ";">>
GT == <<"&", "g", "t", ";">>
QUOT == <<"&", "q", "u", "o", "t", ";">>
APOS_HEX == <<"&", "#", "x", "2", "7", ";">>
APOS_DEC == <<"&", "#", "3", "9", ";">>

P_OPEN == <<"<", "p", ">">>
P_CLOSE == <<"<", "/", "p", ">">>
UL_OPEN == <<"<", "u", "l", ">">>
UL_CLOSE == <<"<", "/", "u", "l", ">">>
LI_OPEN == <<"<", "l", "i", ">">>
LI_CLOSE == <<"<", "/", "l", "i", ">">>
STRONG_OPEN == <<"<", "s", "t", "r", "o", "n", "g", ">">>
STRONG_CLOSE == <<"<", "/", "s", "t", "r", "o", "n", "g", ">">>
EM_OPEN == <<"<", "e", "m", ">">>
EM_CLOSE == <<"<", "/", "e", "m", ">">>

----------------------------------------------------------------------------
(* markdown_to_html (Python, generation time).                             *)

\* html.escape(value), quote=True: & first, then < > " '
html_escape(value) ==
    ReplaceAll(ReplaceAll(ReplaceAll(ReplaceAll(ReplaceAll(value,
        "&", AMP), "<", LT), ">", GT), "\"", QUOT), "'", APOS_HEX)

py_inline_mutant(value) ==
    html_escape(EmphSub(EmphSub(value, "*", STRONG_OPEN, STRONG_CLOSE),
                        "_", EM_OPEN, EM_CLOSE))

\* inline(value): escape, then *bold*, then _italic_
py_inline(value) ==
    EmphSub(EmphSub(html_escape(value), "*", STRONG_OPEN, STRONG_CLOSE),
            "_", EM_OPEN, EM_CLOSE)

py_flush_para_mutant(st) ==
    IF st.para # <<>>
    THEN [st EXCEPT !.parts = @ \o P_OPEN \o py_inline(JoinWith(<<>>, st.para))
                                  \o P_CLOSE,
                    !.para = <<>>]
    ELSE st

py_flush_para(st) ==
    IF st.para # <<>>
    THEN [st EXCEPT !.parts = @ \o P_OPEN \o py_inline(JoinWith(<<" ">>, st.para))
                                  \o P_CLOSE,
                    !.para = <<>>]
    ELSE st

py_close_list_mutant(st) ==
    IF st.in_list
    THEN [st EXCEPT !.parts = @ \o UL_CLOSE]
    ELSE st

py_close_list(st) ==
    IF st.in_list
    THEN [st EXCEPT !.parts = @ \o UL_CLOSE, !.in_list = FALSE]
    ELSE st

\* one iteration of the loop over lines
py_line(st, raw_line) ==
    LET line == Strip(raw_line)
    IN  IF line = <<>> THEN py_close_list(py_flush_para(st))
        ELSE IF StartsWith(line, <<"-", " ">>)
        THEN LET s1 == py_flush_para(st)
                 s2 == IF ~s1.in_list
                       THEN [s1 EXCEPT !.parts = @ \o UL_OPEN, !.in_list = TRUE]
                       ELSE s1
             IN  [s2 EXCEPT !.parts = @ \o LI_OPEN
                                \o py_inline(SubSeq(line, 3, Len(line)))
                                \o LI_CLOSE]
        ELSE LET s1 == py_close_list(st)
             IN  [s1 EXCEPT !.para = Append(@, line)]

RECURSIVE py_lines(_, _)
py_lines(st, lines) ==
    IF lines = <<>> THEN st
    ELSE py_lines(py_line(st, lines[1]), Tail(lines))

markdown_to_html(text) ==
    LET st0 == [parts |-> <<>>, para |-> <<>>, in_list |-> FALSE]
    IN  py_close_list(py_flush_para(py_lines(st0, SplitLines(text)))).parts

----------------------------------------------------------------------------
(* markdownToHtml (embedded script, in the browser).                       *)

escapeHtml(value) ==
    ReplaceAll(ReplaceAll(ReplaceAll(ReplaceAll(ReplaceAll(value,
        "&", AMP), "<", LT), ">", GT), "\"", QUOT), "'", APOS_DEC)

js_inline(text) ==
    EmphSub(EmphSub(escapeHtml(text), "*", STRONG_OPEN, STRONG_CLOSE),
            "_", EM_OPEN, EM_CLOSE)

flushPara(st) ==
    IF st.para = <<>> THEN st
    ELSE [st EXCEPT !.parts = @ \o P_OPEN \o js_inline(JoinWith(<<" ">>, st.para))
                                  \o P_CLOSE,
                    !.para = <<>>]

closeList(st) ==
    IF ~st.inList THEN st
    ELSE [st EXCEPT !.parts = @ \o UL_CLOSE, !.inList = FALSE]

js_line(st, rawLine) ==
    LET line == Strip(rawLine)
    IN  IF line = <<>> THEN closeList(flushPara(st))
        ELSE IF StartsWith(line, <<"-", " ">>)
        THEN LET s1 == flushPara(st)
                 s2 == IF ~s1.inList
                       THEN [s1 EXCEPT !.parts = @ \o UL_OPEN, !.inList = TRUE]
                       ELSE s1
             IN  [s2 EXCEPT !.parts = @ \o LI_OPEN
                                \o js_inline(SubSeq(line, 3, Len(line)))
                                \o LI_CLOSE]
        ELSE LET s1 == closeList(st)
             IN  [s1 EXCEPT !.para = Append(@, line)]

RECURSIVE js_lines(_, _)
js_lines(st, lines) ==
    IF lines = <<>> THEN st
    ELSE js_lines(js_line(st, lines[1]), Tail(lines))

markdownToHtml(raw) ==
    LET st0 == [parts |-> <<>>, para |-> <<>>, inList |-> FALSE]
    IN  closeList(flushPara(js_lines(st0, SplitNewline(raw)))).parts

----------------------------------------------------------------------------
(* Inputs of the renderers: every string over MdAlphabet of at most        *)
(* MaxMdLen characters, and every text of at most MaxMdLines sample lines. *)

MdAlphabet == {"a", " ", "\n", "*", "_", "-", "<", ">", "&", "\"", "'"}

MdSampleLines ==
    { <<>>,
      <<"a">>,
      <<"-", " ", "a">>,
      <<"*", "b", "*", " ", "_", "i", "_">>,
      <<"-", " ", "*", "<", "*">>,
      <<"_", "&", "_">>,
      <<"\"", "'">>,
      <<" ", ">", " ">> }

SeqsUpTo(S, n) == UNION {[1..k -> S] : k \in 0..n}

MdInputs ==
    SeqsUpTo(MdAlphabet, MaxMdLen)
      \cup {JoinWith(<<"\n">>, ls) : ls \in SeqsUpTo(MdSampleLines, MaxMdLines)}

----------------------------------------------------------------------------
(* Values of the variables a specification does not use.                   *)

IdleMd == mdText = <<>> /\ pyHtml = None /\ jsHtml = None
IdleOrder == parsed = <<>> /\ orderFile = None /\ captures = None
IdleCaptures == capText = <<>> /\ capOut = None
IdleNotes == notesText = <<>> /\ notesOut = None
IdleEditor ==
    /\ mainChildren = <<>>
    /\ initialNotes = <<>>
    /\ editMode = FALSE
    /\ toggleText = "Mode edition"
    /\ saves = 0
    /\ pendingSaves = 0
    /\ failedSaves = 0
    /\ alerts = 0
    /\ downloads = 0
    /\ lastDownload = None

EXPORT_PDF == "Export PDF"
EXPORT_PDF_BUSY == "Export PDF..."

IdleExport ==
    /\ exportBtn = [disabled |-> FALSE, text |-> EXPORT_PDF]
    /\ exportCalls = <<>>
    /\ exports = 0
    /\ opened = 0

DEFAULT_PROJECT == <<"d", "e", "f", "a", "u", "l", "t">>

IdleGen ==
    /\ argv = [all_projects |-> FALSE, project |-> DEFAULT_PROJECT]
    /\ disk = [root |-> FALSE, dirs |-> <<>>, logs |-> {}]
    /\ queue = None
    /\ generated = 0
    /\ outputs = <<>>
    /\ stderr = <<>>
    /\ exitCode = None

----------------------------------------------------------------------------
(* SpecMd: one markdown string rendered at generation time and in the      *)
(* browser.                                                                *)

InitMd ==
    /\ mdText \in MdInputs
    /\ pyHtml = None
    /\ jsHtml = None
    /\ IdleOrder /\ IdleCaptures /\ IdleNotes /\ IdleEditor
    /\ IdleExport /\ IdleGen

RenderBatch ==
    /\ pyHtml = None
    /\ pyHtml' = Some(markdown_to_html(mdText))
    /\ UNCHANGED <<mdText, jsHtml, orderVars, capVars, notesVars, editorVars, exportVars, genVars>>

RenderClient ==
    /\ jsHtml = None
    /\ jsHtml' = Some(markdownToHtml(mdText))
    /\ UNCHANGED <<mdText, pyHtml, orderVars, capVars, notesVars, editorVars, exportVars, genVars>>

NextMd == RenderBatch \/ RenderClient

SpecMd == InitMd /\ [][NextMd]_vars

----------------------------------------------------------------------------
(* Claims about the renderers (SpecMd).                                    *)

Count(s, c) == Cardinality({i \in 1..Len(s) : s[i] = c})

MatchesAt(s, i, p) == i >= 1 /\ i + Len(p) - 1 <= Len(s) /\ SubSeq(s, i, i + Len(p) - 1) = p

CountSub(s, p) == Cardinality({i \in 1..Len(s) : MatchesAt(s, i, p)})

BothRendered == pyHtml # None /\ jsHtml # None

\* C2: for every markdown string over the alphabet, markdown_to_html and
\* markdownToHtml produce the same HTML string, character for character.
\* (The claim as stated; the single quote refutes it.)
C2_RenderersAgree == BothRendered => pyHtml[1] = jsHtml[1]

RendererTags ==
    {P_OPEN, P_CLOSE, UL_OPEN, UL_CLOSE, LI_OPEN, LI_CLOSE,
     STRONG_OPEN, STRONG_CLOSE, EM_OPEN, EM_CLOSE}

\* out holds the special characters of text only as entities: no quote
\* character at all, each '<' opens and each '>' closes a tag of the renderer,
\* each '&' opens an entity, and each special character of the input has its
\* entity in the output (apos is the entity of the single quote)
EscapedOnly(text, out, apos) ==
    /\ Count(out, "\"") = 0
    /\ Count(out, "'") = 0
    /\ \A i \in 1..Len(out) :
          /\ out[i] = "<" => \E t \in RendererTags : MatchesAt(out, i, t)
          /\ out[i] = ">" => \E t \in RendererTags : MatchesAt(out, i - Len(t) + 1, t)
          /\ out[i] = "&" => \E e \in {AMP, LT, GT, QUOT, apos} : MatchesAt(out, i, e)
    /\ CountSub(out, AMP) = Count(text, "&")
    /\ CountSub(out, LT) = Count(text, "<")
    /\ CountSub(out, GT) = Count(text, ">")
    /\ CountSub(out, QUOT) = Count(text, "\"")
    /\ CountSub(out, apos) = Count(text, "'")

\* the entity (or the character itself) expected for one input character
EntityOf(c, apos) ==
    CASE c = "&" -> AMP
      [] c = "<" -> LT
      [] c = ">" -> GT
      [] c = "\"" -> QUOT
      [] c = "'" -> apos
      [] OTHER -> <<c>>

RECURSIVE Entities(_, _)
Entities(t, apos) ==
    IF t = <<>> THEN <<>> ELSE EntityOf(t[1], apos) \o Entities(Tail(t), apos)

\* a span body: not empty, no emphasis marker, no line break, no blank at an end
IsSpanBody(t) ==
    /\ t # <<>>
    /\ \A i \in 1..Len(t) : t[i] \notin {"*", "_", "\n"}
    /\ Strip(t) = t

\* text is mark body mark, alone or as a list item: out is the strong / em
\* element around the escaped body, in a paragraph or a list item
SpanRendered(text, out, apos, mark, open, close) ==
    /\ \A t \in {SubSeq(text, 2, Len(text) - 1)} :
          (Len(text) >= 3 /\ text[1] = mark /\ text[Len(text)] = mark /\ IsSpanBody(t))
             => out = P_OPEN \o open \o Entities(t, apos) \o close \o P_CLOSE
    /\ \A t \in {SubSeq(text, 4, Len(text) - 1)} :
          (Len(text) >= 5 /\ SubSeq(text, 1, 3) = <<"-", " ", mark>>
              /\ text[Len(text)] = mark /\ IsSpanBody(t))
             => out = UL_OPEN \o LI_OPEN \o open \o Entities(t, apos) \o close
                        \o LI_CLOSE \o UL_CLOSE

EmphasisApplied(text, out, apos) ==
    /\ SpanRendered(text, out, apos, "*", STRONG_OPEN, STRONG_CLOSE)
    /\ SpanRendered(text, out, apos, "_", EM_OPEN, EM_CLOSE)

\* C9: in the output of either renderer every '<', '>', '&' and quote of the
\* input appears only in HTML-escaped form, the only tags are those the
\* renderer emits, and a *text* / _text_ span still becomes a strong / em
\* element around the escaped text.
C9_EscapedThenEmphasis ==
    /\ pyHtml # None =>
          /\ EscapedOnly(mdText, pyHtml[1], APOS_HEX)
          /\ EmphasisApplied(mdText, pyHtml[1], APOS_HEX)
    /\ jsHtml # None =>
          /\ EscapedOnly(mdText, jsHtml[1], APOS_DEC)
          /\ EmphasisApplied(mdText, jsHtml[1], APOS_DEC)

\* a span whose body is a special character has been rendered by both
C9_Witness ==
    /\ mdText = <<"*", "<", "*">>
    /\ pyHtml = Some(P_OPEN \o STRONG_OPEN \o LT \o STRONG_CLOSE \o P_CLOSE)
    /\ jsHtml = pyHtml

----------------------------------------------------------------------------
(* apply_order.                                                            *)

Range(s) == {s[i] : i \in 1..Len(s)}

\* the loop over the order file: stripped lines, blank and '#' lines skipped
order_names(text) ==
    LET stripped == [i \in 1..Len(SplitLines(text)) |-> Strip(SplitLines(text)[i])]
    IN  SelectSeq(stripped, LAMBDA line : line # <<>> /\ line[1] # "#")

\* item.get("fichier") is truthy: the key is present and its value not empty
HasFichier(item) == item.fichier # None /\ item.fichier[1] # <<>>

\* by_name: the keys of the dict, and the record each key holds (a later
\* record with the same fichier overwrites an earlier one)
by_name_keys(caps) == {caps[i].fichier[1] : i \in {k \in 1..Len(caps) : HasFichier(caps[k])}}

by_name_get(caps, name) ==
    caps[Max({i \in 1..Len(caps) : HasFichier(caps[i]) /\ caps[i].fichier[1] = name})]

ordered_mutant(caps, order) ==
    SelectSeq(caps, LAMBDA item : HasFichier(item) /\ item.fichier[1] \in Range(order))

\* ordered = [by_name[name] for name in order if name in by_name]
RECURSIVE ordered_part(_, _)
ordered_part(caps, order) ==
    IF order = <<>> THEN <<>>
    ELSE (IF order[1] \in by_name_keys(caps)
          THEN <<by_name_get(caps, order[1])>> ELSE <<>>)
         \o ordered_part(caps, Tail(order))

remaining_mutant(caps, order) ==
    SelectSeq(caps, LAMBDA item : HasFichier(item) /\ item.fichier[1] \notin Range(order))

\* remaining = [item for item in captures if item.get("fichier") not in order]
remaining_part(caps, order) ==
    SelectSeq(caps, LAMBDA item : item.fichier = None \/ item.fichier[1] \notin Range(order))

concat_mutant(ordered, remaining) == remaining \o ordered

\* return ordered + remaining
concat_order(ordered, remaining) == ordered \o remaining

apply_order(caps, file) ==
    IF file = None THEN caps
    ELSE LET order == order_names(file[1])
         IN  concat_order(ordered_part(caps, order), remaining_part(caps, order))

----------------------------------------------------------------------------
(* SpecOrder: parsed capture records and an order file, reconciled.        *)

FileF == <<"f">>
FileG == <<"g">>

\* the fichier of a record: no Fichier line, an empty name, or a name
FichierValues == {None, Some(<<>>), Some(FileF), Some(FileG)}

Digits == <<"1", "2", "3", "4", "5", "6", "7", "8", "9">>

\* records as parse_captures builds them; the i-th marker has id i
RecordAt(i, fichier) == [id |-> <<Digits[i]>>, fichier |-> fichier, url |-> None, date |-> None]

RecordLists ==
    UNION {{[i \in 1..n |-> RecordAt(i, fs[i])] : fs \in [1..n -> FichierValues]} :
              n \in 0..MaxCaptures}


\* lines of an order file: a name, a name with blanks around it, a comment, a
\* blank line
OrderSampleLines == {FileF, <<" ", "g", " ">>, <<"#", "f">>, <<>>}

OrderFiles ==
    {None} \cup {Some(JoinWith(<<"\n">>, ls)) : ls \in SeqsUpTo(OrderSampleLines, MaxOrderLines)}

InitOrder ==
    /\ parsed \in RecordLists
    /\ orderFile \in OrderFiles
    /\ captures = None
    /\ IdleMd /\ IdleCaptures /\ IdleNotes /\ IdleEditor
    /\ IdleExport /\ IdleGen

\* captures = apply_order(captures, order_file(project))
ApplyOrder ==
    /\ captures = None
    /\ captures' = Some(apply_order(parsed, orderFile))
    /\ UNCHANGED <<parsed, orderFile, mdVars, capVars, notesVars, editorVars, exportVars, genVars>>

NextOrder == ApplyOrder

SpecOrder == InitOrder /\ [][NextOrder]_vars

----------------------------------------------------------------------------
(* Claims about apply_order (SpecOrder).                                   *)

\* the order list L: the names of the order file, none when there is no file
OrderList == IF orderFile = None THEN <<>> ELSE order_names(orderFile[1])

Occurrences(s, x) == Cardinality({i \in 1..Len(s) : s[i] = x})

\* the record's filename is one of the names of L
NamedInL(item) == item.fichier # None /\ item.fichier[1] \in Range(OrderList)

\* the record has no filename, or an empty one
NoFilename(item) == item.fichier = None \/ item.fichier = Some(<<>>)

\* the names of L that are the filename of a record of R, in L's order
KnownNames ==
    SelectSeq(OrderList, LAMBDA name : \E i \in 1..Len(parsed) : parsed[i].fichier = Some(name))

\* C1: the result of apply_order holds exactly the records of R as a multiset.
\* (The claim as stated; two records that share a filename refute it.)
C1_Permutation ==
    captures # None =>
        \A r \in Range(parsed) \cup Range(captures[1]) :
            Occurrences(captures[1], r) = Occurrences(parsed, r)

\* C3: the output begins with one record per name of L that is the filename of
\* a record of R, in L's order, each a record of R with that filename; names
\* of L that no record carries contribute nothing.
C3_ExplicitOrderPrefix ==
    captures # None =>
        /\ Len(captures[1]) >= Len(KnownNames)
        /\ \A i \in 1..Len(KnownNames) :
              /\ captures[1][i].fichier = Some(KnownNames[i])
              /\ captures[1][i] \in Range(parsed)
        /\ \A i \in (Len(KnownNames) + 1)..Len(captures[1]) : ~NamedInL(captures[1][i])

\* L = [g, f] over R = [f, g]: the output is [g, f]
C3_Witness ==
    /\ captures # None
    /\ OrderList = <<FileG, FileF>>
    /\ parsed = <<RecordAt(1, Some(FileF)), RecordAt(2, Some(FileG))>>
    /\ captures[1] = <<RecordAt(2, Some(FileG)), RecordAt(1, Some(FileF))>>

\* C4: every record not named in L comes after all records named in L, and
\* the records not named in L keep the relative order they had in R.
C4_UnnamedAfterInOrder ==
    captures # None =>
        /\ \A i, j \in 1..Len(captures[1]) :
              (i < j /\ NamedInL(captures[1][j])) => NamedInL(captures[1][i])
        /\ SelectSeq(captures[1], LAMBDA item : ~NamedInL(item))
             = SelectSeq(parsed, LAMBDA item : ~NamedInL(item))

\* two records not named in L, followed in R by a named one, end up behind it
C4_Witness ==
    /\ captures # None
    /\ Len(parsed) = 3
    /\ ~NamedInL(parsed[1]) /\ ~NamedInL(parsed[2]) /\ NamedInL(parsed[3])
    /\ parsed[1].fichier = Some(FileG)
    /\ captures[1] = <<parsed[3], parsed[1], parsed[2]>>

\* C5: a record without a filename is never in the ordered prefix: it follows
\* every record named in L, and such records keep their relative order.
C5_NoFilenameAppended ==
    captures # None =>
        /\ \A i \in 1..Len(captures[1]) :
              NoFilename(captures[1][i]) =>
                  /\ i > Len(KnownNames)
                  /\ \A j \in 1..Len(captures[1]) : NamedInL(captures[1][j]) => j < i
        /\ SelectSeq(captures[1], NoFilename) = SelectSeq(parsed, NoFilename)

\* a record with no Fichier line and one with an empty name, both ahead of a
\* named record in R, are appended behind it in their order
C5_Witness ==
    /\ captures # None
    /\ Len(parsed) = 3
    /\ parsed[1].fichier = None /\ parsed[2].fichier = Some(<<>>)
    /\ NamedInL(parsed[3])
    /\ captures[1] = <<parsed[3], parsed[1], parsed[2]>>

----------------------------------------------------------------------------
(* The line patterns CAPTURE_RE, FIELD_RE, NOTE_START_RE and NOTE_END_RE,  *)
(* each matched against a stripped line.                                   *)

LStrip(s) ==
    LET keep == {i \in 1..Len(s) : s[i] \notin Whitespace}
    IN  IF keep = {} THEN <<>> ELSE SubSeq(s, Min(keep), Len(s))

RStrip(s) ==
    LET keep == {i \in 1..Len(s) : s[i] \notin Whitespace}
    IN  IF keep = {} THEN <<>> ELSE SubSeq(s, 1, Max(keep))

\* the grave accent U+0060 (a TLA+ string cannot hold it): one character
BACKTICK == "grave"

\* str.strip(chars)
StripChars(s, chars) ==
    LET keep == {i \in 1..Len(s) : s[i] \notin chars}
    IN  IF keep = {} THEN <<>> ELSE SubSeq(s, Min(keep), Max(keep))

CMT_OPEN == <<"<", "!", "-", "-">>
CMT_CLOSE == <<"-", "-", ">">>
KW_CAPTURE == <<"C", "A", "P", "T", "U", "R", "E", ":">>
KW_NOTE == <<"N", "O", "T", "E", ":">>
KW_END_NOTE == <<"E", "N", "D", " ", "N", "O", "T", "E">>
KEY_FICHIER == <<"F", "i", "c", "h", "i", "e", "r">>
KEY_URL == <<"U", "R", "L">>
KEY_DATE == <<"D", "a", "t", "e">>

\* the group of \s*(.+?)\s* when b is all the pattern has left to match up to
\* the end (or up to the closing "-->"): b without the blanks around it; of a
\* b made of blanks only, its last character; no match for an empty b
LazyGroup(b) ==
    IF b = <<>> THEN None
    ELSE IF Strip(b) = <<>> THEN Some(<<b[Len(b)]>>)
    ELSE Some(Strip(b))

\* ^<!--\s*KEYWORD\s*(.+?)\s*-->\s*$ : the optional group
MarkerGroup(line, keyword) ==
    IF ~StartsWith(line, CMT_OPEN) THEN None
    ELSE LET afterOpen == LStrip(SubSeq(line, Len(CMT_OPEN) + 1, Len(line)))
         IN  IF ~StartsWith(afterOpen, keyword) THEN None
             ELSE LET rest == RStrip(SubSeq(afterOpen, Len(keyword) + 1, Len(afterOpen)))
                  IN  IF ~EndsWith(rest, CMT_CLOSE) THEN None
                      ELSE LazyGroup(SubSeq(rest, 1, Len(rest) - Len(CMT_CLOSE)))

\* CAPTURE_RE.match(line): the optional id
capture_match(line) == MarkerGroup(line, KW_CAPTURE)

\* NOTE_START_RE.match(line): the optional name
note_start_match(line) == MarkerGroup(line, KW_NOTE)

\* NOTE_END_RE.match(line)
note_end_match(line) ==
    /\ StartsWith(line, CMT_OPEN)
    /\ LET afterOpen == LStrip(SubSeq(line, Len(CMT_OPEN) + 1, Len(line)))
       IN  /\ StartsWith(afterOpen, KW_END_NOTE)
           /\ Strip(SubSeq(afterOpen, Len(KW_END_NOTE) + 1, Len(afterOpen))) = CMT_CLOSE

\* FIELD_RE.match(line): the optional pair <<key, value>>
field_match(line) ==
    IF line = <<>> \/ line[1] # "-" THEN None
    ELSE LET afterDash == LStrip(Tail(line))
             keys == {k \in {KEY_FICHIER, KEY_URL, KEY_DATE} :
                         StartsWith(afterDash, k \o <<":">>)}
         IN  IF keys = {} THEN None
             ELSE LET key == CHOOSE k \in keys : TRUE
                      value == LazyGroup(SubSeq(afterDash, Len(key) + 2, Len(afterDash)))
                  IN  IF value = None THEN None ELSE Some(<<key, value[1]>>)

----------------------------------------------------------------------------
(* parse_captures.                                                         *)

NewRecord(id) == [id |-> id, fichier |-> None, url |-> None, date |-> None]

\* current[key.lower()] = value, with the backticks of a Fichier stripped
set_field(rec, key, value) ==
    LET v == Strip(value)
    IN  IF key = KEY_FICHIER THEN [rec EXCEPT !.fichier = Some(StripChars(v, {BACKTICK}))]
        ELSE IF key = KEY_URL THEN [rec EXCEPT !.url = Some(v)]
        ELSE [rec EXCEPT !.date = Some(v)]

cap_line_mutant(st, raw_line) ==
    LET line == Strip(raw_line)
        cap == capture_match(line)
        fld == field_match(line)
    IN  IF line = <<>> THEN st
        ELSE IF cap # None
        THEN [captures |-> IF st.current # None
                           THEN Append(st.captures, st.current[1])
                           ELSE st.captures,
              current |-> Some(NewRecord(cap[1]))]
        ELSE IF fld # None /\ st.current # None
        THEN (IF st.captures # <<>>
              THEN [st EXCEPT !.captures[Len(st.captures)] =
                                  set_field(@, fld[1][1], fld[1][2])]
              ELSE [st EXCEPT !.current =
                                  Some(set_field(st.current[1], fld[1][1], fld[1][2]))])
        ELSE st

\* one iteration of the loop over the lines of captures.md
cap_line(st, raw_line) ==
    LET line == Strip(raw_line)
        cap == capture_match(line)
        fld == field_match(line)
    IN  IF line = <<>> THEN st
        ELSE IF cap # None
        THEN [captures |-> IF st.current # None
                           THEN Append(st.captures, st.current[1])
                           ELSE st.captures,
              current |-> Some(NewRecord(cap[1]))]
        ELSE IF fld # None /\ st.current # None
        THEN [st EXCEPT !.current = Some(set_field(st.current[1], fld[1][1], fld[1][2]))]
        ELSE st

RECURSIVE cap_lines(_, _)
cap_lines(st, lines) ==
    IF lines = <<>> THEN st
    ELSE cap_lines(cap_line(st, lines[1]), Tail(lines))

cap_finish_mutant(st) == st.captures

\* after the loop: if current: captures.append(current); return captures
cap_finish(st) ==
    IF st.current # None THEN Append(st.captures, st.current[1]) ELSE st.captures

parse_captures(text) ==
    cap_finish(cap_lines([captures |-> <<>>, current |-> None], SplitLines(text)))

----------------------------------------------------------------------------
(* parse_notes_markdown.                                                   *)

EmptyDict == [k \in {} |-> <<>>]

DictSet(d, key, value) ==
    [k \in DOMAIN d \cup {key} |-> IF k = key THEN value ELSE d[k]]

flush_mutant(st) ==
    IF st.current_name = None THEN st
    ELSE [notes |-> IF st.current_name[1] \in DOMAIN st.notes THEN st.notes
                    ELSE DictSet(st.notes, st.current_name[1],
                                 Strip(JoinWith(<<"\n">>, st.buf))),
          current_name |-> None,
          buf |-> <<>>]

\* flush_current()
flush_current(st) ==
    IF st.current_name = None THEN st
    ELSE [notes |-> DictSet(st.notes, st.current_name[1],
                            Strip(JoinWith(<<"\n">>, st.buf))),
          current_name |-> None,
          buf |-> <<>>]

open_mutant(st, name) == [st EXCEPT !.current_name = Some(Strip(name)), !.buf = <<>>]

\* a start marker: flush_current(); current_name = name.strip(); buf = []
open_note(st, name) ==
    [flush_current(st) EXCEPT !.current_name = Some(Strip(name)), !.buf = <<>>]

\* one iteration of the loop over the lines of notes.md
note_line(st, raw_line) ==
    LET start == note_start_match(Strip(raw_line))
    IN  IF start # None THEN open_note(st, start[1])
        ELSE IF note_end_match(Strip(raw_line)) THEN flush_current(st)
        ELSE IF st.current_name # None THEN [st EXCEPT !.buf = Append(@, raw_line)]
        ELSE st

RECURSIVE note_lines(_, _)
note_lines(st, lines) ==
    IF lines = <<>> THEN st
    ELSE note_lines(note_line(st, lines[1]), Tail(lines))

parse_notes_markdown(text) ==
    flush_current(note_lines([notes |-> EmptyDict, current_name |-> None, buf |-> <<>>],
                             SplitLines(text))).notes

----------------------------------------------------------------------------
(* SpecCaptures: a capture log, parsed.                                    *)

\* two markers, the three field lines, a second URL line, a blank line, an
\* unrecognized line
CapSampleLines ==
    { <<"<", "!", "-", "-", " ", "C", "A", "P", "T", "U", "R", "E", ":", " ", "1", " ", "-", "-", ">">>,
      <<"<", "!", "-", "-", "C", "A", "P", "T", "U", "R", "E", ":", "2", "-", "-", ">">>,
      <<"-", " ", "F", "i", "c", "h", "i", "e", "r", ":", " ", "grave", "f", "grave">>,
      <<"-", " ", "U", "R", "L", ":", " ", "u">>,
      <<"-", "U", "R", "L", ":", "v", " ">>,
      <<"-", " ", "D", "a", "t", "e", ":", " ", "d">>,
      <<>>,
      <<" ", "x">> }

CapTexts == {JoinWith(<<"\n">>, ls) : ls \in SeqsUpTo(CapSampleLines, MaxCapLines)}

InitCaptures ==
    /\ capText \in CapTexts
    /\ capOut = None
    /\ IdleMd /\ IdleOrder /\ IdleNotes /\ IdleEditor
    /\ IdleExport /\ IdleGen

\* captures = parse_captures(md_path.read_text(...))
ParseCaptures ==
    /\ capOut = None
    /\ capOut' = Some(parse_captures(capText))
    /\ UNCHANGED <<capText, mdVars, orderVars, notesVars, editorVars, exportVars, genVars>>

NextCaptures == ParseCaptures

SpecCaptures == InitCaptures /\ [][NextCaptures]_vars

----------------------------------------------------------------------------
(* Claims about parse_captures (SpecCaptures).                             *)

\* the k-th smallest element of a set of numbers
NthOf(S, k) == CHOOSE i \in S : Cardinality({j \in S : j < i}) = k - 1

CapLines == SplitLines(capText)

\* the positions of the capture-marker lines of the log
MarkerLines == {i \in 1..Len(CapLines) : capture_match(Strip(CapLines[i])) # None}

MarkerId(i) == capture_match(Strip(CapLines[i]))[1]

\* C6: parse_captures returns exactly one record per capture-marker line, in
\* the order of the markers, each with the id of its marker; the record of
\* the last marker is there even when no line follows it.
C6_OneRecordPerMarker ==
    capOut # None =>
        /\ Len(capOut[1]) = Cardinality(MarkerLines)
        /\ \A k \in 1..Len(capOut[1]) : capOut[1][k].id = MarkerId(NthOf(MarkerLines, k))

\* a log of two markers with a field line between them, the second marker
\* being the last line
C6_Witness ==
    /\ capOut # None
    /\ Cardinality(MarkerLines) = 2
    /\ Len(CapLines) = 3
    /\ MarkerLines = {1, 3}
    /\ field_match(Strip(CapLines[2])) # None
    /\ Len(capOut[1]) = 2
    /\ capOut[1][1].id = <<"1">> /\ capOut[1][2].id = <<"2">>

----------------------------------------------------------------------------
(* SpecNotes: a notes log, parsed.                                         *)

\* start markers for two keys, an end marker, two body lines, a blank line
NoteSampleLines ==
    { <<"<", "!", "-", "-", " ", "N", "O", "T", "E", ":", " ", "f", " ", "-", "-", ">">>,
      <<"<", "!", "-", "-", "N", "O", "T", "E", ":", "g", "-", "-", ">">>,
      <<"<", "!", "-", "-", " ", "E", "N", "D", " ", "N", "O", "T", "E", " ", "-", "-", ">">>,
      <<"x">>,
      <<" ", "y">>,
      <<>> }

NoteTexts == {JoinWith(<<"\n">>, ls) : ls \in SeqsUpTo(NoteSampleLines, MaxNoteLines)}

InitNotes ==
    /\ notesText \in NoteTexts
    /\ notesOut = None
    /\ IdleMd /\ IdleOrder /\ IdleCaptures /\ IdleEditor
    /\ IdleExport /\ IdleGen

\* load_notes: parse_notes_markdown(path.read_text(...))
ParseNotes ==
    /\ notesOut = None
    /\ notesOut' = Some(parse_notes_markdown(notesText))
    /\ UNCHANGED <<notesText, mdVars, orderVars, capVars, editorVars, exportVars, genVars>>

NextNotes == ParseNotes

SpecNotes == InitNotes /\ [][NextNotes]_vars

----------------------------------------------------------------------------
(* Claims about parse_notes_markdown (SpecNotes).                          *)

NoteLines == SplitLines(notesText)

IsNoteStart(i) == note_start_match(Strip(NoteLines[i])) # None

IsNoteEnd(i) == ~IsNoteStart(i) /\ note_end_match(Strip(NoteLines[i]))

NoteKey(i) == Strip(note_start_match(Strip(NoteLines[i]))[1])

StartLines == {i \in 1..Len(NoteLines) : IsNoteStart(i)}

\* the line that closes the block opened at line i: the next start or end
\* marker, or the line after the last one
BlockClose(i) ==
    Min({j \in (i + 1)..Len(NoteLines) : IsNoteStart(j) \/ IsNoteEnd(j)}
          \cup {Len(NoteLines) + 1})

\* the body of the block opened at line i: its lines joined and trimmed
BlockBody(i) == Strip(JoinWith(<<"\n">>, SubSeq(NoteLines, i + 1, BlockClose(i) - 1)))

BlocksOf(key) == {i \in StartLines : NoteKey(i) = key}

\* C7: when two or more blocks carry the same key, the mapping holds under
\* that key the body of the block that comes last in the text.
C7_LastBlockWins ==
    notesOut # None =>
        \A i \in StartLines :
            Cardinality(BlocksOf(NoteKey(i))) >= 2 =>
                /\ NoteKey(i) \in DOMAIN notesOut[1]
                /\ notesOut[1][NoteKey(i)] = BlockBody(Max(BlocksOf(NoteKey(i))))

\* two blocks with the same key and different bodies: the later body is kept
C7_Witness ==
    /\ notesOut # None
    /\ \E i, j \in StartLines :
          /\ i < j
          /\ NoteKey(i) = NoteKey(j)
          /\ BlockBody(i) = <<"x">>
          /\ BlockBody(j) = <<"y">>
          /\ notesOut[1][NoteKey(i)] = <<"y">>

\* the lines that lie in no block: before the first start marker, or after an
\* end marker and before the next start marker
OutsideLines ==
    {i \in 1..Len(NoteLines) :
        /\ ~IsNoteStart(i)
        /\ ~IsNoteEnd(i)
        /\ \A s \in StartLines : ~(s < i /\ i < BlockClose(s))}

\* the lines that lie inside a block
InsideLines == {i \in 1..Len(NoteLines) : \E s \in StartLines : s < i /\ i < BlockClose(s)}

\* C8: every start marker yields an entry, also when its block is closed by
\* the next start marker or by the end of the input; every body is the body
\* of a block of its key, the lines between the start marker and the line
\* that closes it; and no character of a body comes from a line outside
\* every block.
C8_BlocksAndBodies ==
    notesOut # None =>
        /\ DOMAIN notesOut[1] = {NoteKey(i) : i \in StartLines}
        /\ \A key \in DOMAIN notesOut[1] :
              /\ \E i \in BlocksOf(key) : notesOut[1][key] = BlockBody(i)
              /\ \A k \in 1..Len(notesOut[1][key]) :
                    \/ notesOut[1][key][k] = "\n"
                    \/ \E i \in InsideLines : notesOut[1][key][k] \in Range(NoteLines[i])

\* a line before the first start marker, a block closed by the next start
\* marker and a block closed by the end of the input
C8_Witness ==
    /\ notesOut # None
    /\ Len(NoteLines) = 4
    /\ OutsideLines = {1} /\ NoteLines[1] = <<"x">>
    /\ StartLines = {2, 4}
    /\ NoteLines[3] = <<" ", "y">>
    /\ NoteKey(2) # NoteKey(4)
    /\ notesOut[1][NoteKey(2)] = <<"y">>
    /\ notesOut[1][NoteKey(4)] = <<>>

----------------------------------------------------------------------------
(* render_html: the page a browser loads.  Only what the embedded script   *)
(* reads is kept: the element children of main (the toolbar, the title,    *)
(* one capture row per record) and the initialNotes object.                *)

Node(kind, id, capture, aside) ==
    [kind |-> kind, id |-> id, capture |-> capture, aside |-> aside,
     controls |-> FALSE, editor |-> None]

ToolbarNode == Node("toolbar", <<>>, <<>>, None)
TitleNode == Node("h1", <<>>, <<>>, None)
EmptyPageNode == Node("p", <<>>, <<>>, None)

\* raw_filename = item.get("fichier", "")
raw_filename(item) == IF item.fichier = None THEN <<>> ELSE item.fichier[1]

\* note_text = notes_by_capture.get(raw_filename, "").strip()
note_text(item, notes) ==
    Strip(IF raw_filename(item) \in DOMAIN notes THEN notes[raw_filename(item)] ELSE <<>>)

render_card_mutant(item, notes) ==
    Node("row", item.id, raw_filename(item),
         IF raw_filename(item) \in DOMAIN notes
         THEN Some(markdown_to_html(note_text(item, notes)))
         ELSE None)

\* one capture row: the card with its data-capture attribute (html.escape in
\* the attribute, undone by the browser's parser) and the note aside
render_card(item, notes) ==
    Node("row", item.id, raw_filename(item),
         IF note_text(item, notes) # <<>>
         THEN Some(markdown_to_html(note_text(item, notes)))
         ELSE None)

render_main(caps, notes) ==
    <<ToolbarNode, TitleNode>>
      \o (IF caps = <<>> THEN <<EmptyPageNode>>
          ELSE [i \in 1..Len(caps) |-> render_card(caps[i], notes)])

\* notes_for_js, embedded as initialNotes
notes_for_js(caps, notes) ==
    [name \in {raw_filename(caps[i]) :
                  i \in {k \in 1..Len(caps) : note_text(caps[k], notes) # <<>>}}
        |-> Strip(notes[name])]

----------------------------------------------------------------------------
(* The embedded script.                                                    *)

IsCard(node) == node.kind = "row"

CardPositions == {i \in 1..Len(mainChildren) : IsCard(mainChildren[i])}

\* ensureNoteEditor(card): the textarea starts with initialNotes[filename] || ''
\* (escapeHtml in the markup, undone by the browser's parser)
ensureNoteEditor(node) ==
    IF node.editor # None THEN node
    ELSE [node EXCEPT !.editor =
            Some([display |-> "",
                  value |-> IF node.capture \in DOMAIN initialNotes
                            THEN initialNotes[node.capture] ELSE <<>>])]

\* ensureControls(): every card without controls gets them and a note editor
ensureControls(children) ==
    [i \in 1..Len(children) |->
        IF IsCard(children[i]) /\ ~children[i].controls
        THEN ensureNoteEditor([children[i] EXCEPT !.controls = TRUE])
        ELSE children[i]]

Swap(children, i, j) ==
    [k \in 1..Len(children) |->
        IF k = i THEN children[j] ELSE IF k = j THEN children[i] ELSE children[k]]

moveCard_mutant(children, i, direction) ==
    IF direction = "up"
    THEN (IF i > 1 THEN [children EXCEPT ![i - 1] = children[i]] ELSE children)
    ELSE (IF i < Len(children) THEN Swap(children, i, i + 1) ELSE children)

\* moveCard(card, direction) for the card of the row at position i
moveCard(children, i, direction) ==
    IF direction = "up"
    THEN (IF i > 1 THEN Swap(children, i - 1, i) ELSE children)
    ELSE (IF i < Len(children) THEN Swap(children, i, i + 1) ELSE children)

\* toggleNoteEditor(card)
toggleNoteEditor(node) ==
    IF node.editor = None THEN node
    ELSE [node EXCEPT !.editor =
            Some([node.editor[1] EXCEPT !.display = IF @ = "block" THEN "none" ELSE "block"])]

\* upsertNoteAside(card)
upsertNoteAside(node) ==
    IF node.editor = None THEN node
    ELSE LET markdown == Strip(node.editor[1].value)
         IN  IF markdown = <<>> THEN [node EXCEPT !.aside = None]
             ELSE [node EXCEPT !.aside = Some(markdownToHtml(markdown))]

\* buildOrder(): the non-empty data-capture of every card, one per line
buildOrder ==
    LET names == SelectSeq([i \in 1..Len(mainChildren) |->
                               IF IsCard(mainChildren[i]) THEN mainChildren[i].capture
                               ELSE <<>>],
                           LAMBDA name : name # <<>>)
    IN  JoinWith(<<"\n">>, names) \o <<"\n">>

\* click on #editToggle: enter edit mode, or leave it and send the save request
\* (the handler resumes in SaveSucceeds / SaveFails)
ClickEditToggle ==
    /\ editMode' = ~editMode
    /\ IF ~editMode
       THEN /\ mainChildren' = ensureControls(mainChildren)
            /\ toggleText' = "Sauvegarder"
            /\ UNCHANGED <<saves, pendingSaves>>
       ELSE /\ saves < MaxSaves
            /\ saves' = saves + 1
            /\ pendingSaves' = pendingSaves + 1
            /\ UNCHANGED <<mainChildren, toggleText>>
    /\ UNCHANGED <<initialNotes, failedSaves, alerts, downloads, lastDownload,
                   mdVars, orderVars, capVars, notesVars,
                   exportVars, genVars>>

\* the save request is answered with a 2xx response
SaveSucceeds ==
    /\ pendingSaves > 0
    /\ pendingSaves' = pendingSaves - 1
    /\ toggleText' = "Mode edition"
    /\ UNCHANGED <<mainChildren, initialNotes, editMode, saves, failedSaves, alerts,
                   downloads, lastDownload, mdVars, orderVars, capVars, notesVars,
                   exportVars, genVars>>

catch_mutant(out) ==
    [alerts |-> out.alerts + 1, downloads |-> out.downloads, lastDownload |-> out.lastDownload]

\* the catch block of the toggle handler: alert(...), then downloadOrder(),
\* which starts one download of buildOrder()
catch_block(out) ==
    [alerts |-> out.alerts + 1, downloads |-> out.downloads + 1,
     lastDownload |-> Some(buildOrder)]

\* the save request fails (network error or non-2xx response): the handler
\* resumes in its catch block
SaveFails ==
    /\ pendingSaves > 0
    /\ pendingSaves' = pendingSaves - 1
    /\ failedSaves' = failedSaves + 1
    /\ LET out == catch_block([alerts |-> alerts, downloads |-> downloads,
                               lastDownload |-> lastDownload])
       IN  /\ alerts' = out.alerts
           /\ downloads' = out.downloads
           /\ lastDownload' = out.lastDownload
    /\ toggleText' = "Mode edition"
    /\ UNCHANGED <<mainChildren, initialNotes, editMode, saves,
                   mdVars, orderVars, capVars, notesVars,
                   exportVars, genVars>>

\* click on a card's move-up / move-down button (shown in edit mode only)
ClickMove ==
    /\ editMode
    /\ \E i \in CardPositions, direction \in {"up", "down"} :
          /\ mainChildren[i].controls
          /\ mainChildren' = moveCard(mainChildren, i, direction)
    /\ UNCHANGED <<initialNotes, editMode, toggleText, saves, pendingSaves, failedSaves,
                   alerts, downloads, lastDownload, mdVars, orderVars, capVars, notesVars,
                   exportVars, genVars>>

\* click on a card's note-toggle button (shown in edit mode only)
ClickNoteToggle ==
    /\ editMode
    /\ \E i \in CardPositions :
          /\ mainChildren[i].controls
          /\ mainChildren' = [mainChildren EXCEPT ![i] = toggleNoteEditor(@)]
    /\ UNCHANGED <<initialNotes, editMode, toggleText, saves, pendingSaves, failedSaves,
                   alerts, downloads, lastDownload, mdVars, orderVars, capVars, notesVars,
                   exportVars, genVars>>

\* what the user leaves in a textarea after an edit
TypedTexts == {<<" ">>, <<"*", "a", "*">>}

\* the user edits the textarea of an open note editor (its inline style is
\* display: block, whatever the mode); the input listener re-renders the
\* aside in edit mode only
InputNote ==
    /\ \E i \in CardPositions, text \in TypedTexts :
          /\ mainChildren[i].editor # None
          /\ mainChildren[i].editor[1].display = "block"
          /\ LET typed == [mainChildren[i] EXCEPT
                              !.editor = Some([@[1] EXCEPT !.value = text])]
             IN  mainChildren' = [mainChildren EXCEPT ![i] =
                                     IF editMode THEN upsertNoteAside(typed) ELSE typed]
    /\ UNCHANGED <<initialNotes, editMode, toggleText, saves, pendingSaves, failedSaves,
                   alerts, downloads, lastDownload, mdVars, orderVars, capVars, notesVars,
                   exportVars, genVars>>

----------------------------------------------------------------------------
(* SpecEditor: a generated page in the browser.                            *)

\* the records of the page: two cards with different names, with the same
\* name, or one of them without a name
EditorCaptureLists ==
    { <<RecordAt(1, Some(FileF)), RecordAt(2, Some(FileG))>>,
      <<RecordAt(1, Some(FileF)), RecordAt(2, Some(FileF))>>,
      <<RecordAt(1, Some(FileF)), RecordAt(2, None)>> }

\* notes_by_capture: no note, or a note for f
EditorNotes ==
    { EmptyDict,
      DictSet(EmptyDict, FileF, <<"a">>),
      DictSet(EmptyDict, FileF, <<"'">>) }

InitEditor ==
    /\ parsed \in EditorCaptureLists
    /\ orderFile = None
    /\ captures = None
    /\ \E notes \in EditorNotes :
          /\ mainChildren = render_main(parsed, notes)
          /\ initialNotes = notes_for_js(parsed, notes)
    /\ editMode = FALSE
    /\ toggleText = "Mode edition"
    /\ saves = 0
    /\ pendingSaves = 0
    /\ failedSaves = 0
    /\ alerts = 0
    /\ downloads = 0
    /\ lastDownload = None
    /\ IdleMd /\ IdleCaptures /\ IdleNotes
    /\ IdleExport /\ IdleGen

NextEditor ==
    \/ ClickEditToggle
    \/ SaveSucceeds
    \/ SaveFails
    \/ ClickMove
    \/ ClickNoteToggle
    \/ InputNote

SpecEditor == InitEditor /\ [][NextEditor]_vars

----------------------------------------------------------------------------
(* Claims about the note editor (SpecEditor).                              *)

\* the aside the client renderer gives for the text of a textarea
ClientAside(value) ==
    IF Strip(value) = <<>> THEN None ELSE Some(markdownToHtml(Strip(value)))

\* C10: after any sequence of editor events the aside of a card is the client
\* renderer's output for the trimmed text of the card's textarea, and there is
\* no aside when that text is empty.
\* (The claim as stated; a generated note with a single quote refutes it, and
\* so does typing in an editor left open after edit mode.)
C10_AsideFollowsTextarea ==
    \A i \in CardPositions :
        mainChildren[i].editor # None =>
            mainChildren[i].aside = ClientAside(mainChildren[i].editor[1].value)

----------------------------------------------------------------------------
(* Claims about saving and reordering (SpecEditor).                        *)

\* the cards of the page, in document order
CardSeq == SelectSeq(mainChildren, LAMBDA node : node.kind = "row")

\* the text of every note textarea, card by card
TextareaSeq == [k \in 1..Len(CardSeq) |-> CardSeq[k].editor]

\* the non-empty lines of an order text
NamedLines(text) == SelectSeq(SplitNewline(text), LAMBDA line : line # <<>>)

\* the filenames of the cards that have one, in display order
NamedCards == SelectSeq([k \in 1..Len(CardSeq) |-> CardSeq[k].capture],
                        LAMBDA name : name # <<>>)

\* C11: every failed save attempt shows one error message and starts exactly
\* one download, whose lines are the filenames of the cards in their current
\* order, and it changes neither the cards nor any note textarea; no download
\* starts otherwise.
C11_SaveFailureFallback ==
    /\ [](downloads = failedSaves /\ alerts = failedSaves)
    /\ [][failedSaves' # failedSaves =>
            /\ failedSaves' = failedSaves + 1
            /\ alerts' = alerts + 1
            /\ downloads' = downloads + 1
            /\ lastDownload' # None
            /\ NamedLines(lastDownload'[1]) = NamedCards'
            /\ CardSeq' = CardSeq
            /\ TextareaSeq' = TextareaSeq]_vars

\* a save failed after the user moved the second card above the first and
\* typed a note: the download names g before f
C11_Witness ==
    /\ failedSaves = 1
    /\ downloads = 1
    /\ alerts = 1
    /\ pendingSaves = 0
    /\ lastDownload = Some(<<"g", "\n", "f", "\n">>)
    /\ Len(CardSeq) = 2
    /\ CardSeq[1].id = <<"2">>
    /\ CardSeq[2].editor # None
    /\ CardSeq[2].editor[1].value = <<"*", "a", "*">>

----------------------------------------------------------------------------
(* main() and generate_project: which projects are generated.              *)

\* sanitize_project(value): strip, lower, blanks to dashes, drop the other
\* characters, "default" for an empty name
sanitize_project(value) ==
    LET \* str.lower() on the letters of the modelled names
        lower(c) == IF c = "P" THEN "p" ELSE IF c = "Q" THEN "q" ELSE c
        \* the characters PROJECT_RE keeps: [a-z0-9._-]
        kept == {"a", "b", "c", "d", "e", "f", "g", "h", "i", "j", "k", "l", "m", "n",
                 "o", "p", "q", "r", "s", "t", "u", "v", "w", "x", "y", "z", "0", "1",
                 "2", "3", "4", "5", "6", "7", "8", "9", ".", "_", "-"}
        stripped == Strip(value)
        lowered == [i \in 1..Len(stripped) |-> lower(stripped[i])]
        dashed == ReplaceAll(lowered, " ", <<"-">>)
        name == SelectSeq(dashed, LAMBDA c : c \in kept)
    IN  IF name = <<>> THEN DEFAULT_PROJECT ELSE name

\* captures_file(project).exists(): screenshots/captures.md for the default
\* project, screenshots/<project>/captures.md for another
captures_file_exists(project) == project \in disk.logs

\* discover_projects(): the default project, then the sanitized names of the
\* child directories in sorted order, each once
RECURSIVE discover_from(_, _)
discover_from(projects, children) ==
    IF children = <<>> THEN projects
    ELSE LET name == sanitize_project(children[1])
         IN  discover_from(IF name # DEFAULT_PROJECT /\ name \notin Range(projects)
                           THEN Append(projects, name) ELSE projects,
                           Tail(children))

discover_projects ==
    IF ~disk.root THEN <<DEFAULT_PROJECT>>
    ELSE discover_from(<<DEFAULT_PROJECT>>, disk.dirs)

\* generate_project(project): False without a captures file; otherwise the
\* page is written (and "Generated: ..." printed) and the result is True
generate_project(project, written) ==
    LET name == sanitize_project(project)
    IN  IF ~captures_file_exists(name) THEN [ok |-> FALSE, outputs |-> written]
        ELSE [ok |-> TRUE, outputs |-> Append(written, name)]

\* main() without --all-projects
MainSingle ==
    /\ exitCode = None
    /\ ~argv.all_projects
    /\ LET res == generate_project(argv.project, outputs)
       IN  /\ outputs' = res.outputs
           /\ IF res.ok
              THEN /\ exitCode' = Some(0)
                   /\ UNCHANGED stderr
              ELSE /\ stderr' = Append(stderr, [message |-> "Missing captures file",
                                                project |-> sanitize_project(argv.project)])
                   /\ exitCode' = Some(1)
    /\ UNCHANGED <<argv, disk, queue, generated,
                   mdVars, orderVars, capVars, notesVars, editorVars, exportVars>>

\* main() with --all-projects: the projects are discovered
MainAllStart ==
    /\ exitCode = None
    /\ argv.all_projects
    /\ queue = None
    /\ queue' = Some(discover_projects)
    /\ UNCHANGED <<argv, disk, generated, outputs, stderr, exitCode,
                   mdVars, orderVars, capVars, notesVars, editorVars, exportVars>>

\* one iteration of the loop over the discovered projects
MainAllStep ==
    /\ exitCode = None
    /\ queue # None
    /\ queue[1] # <<>>
    /\ LET res == generate_project(queue[1][1], outputs)
       IN  /\ outputs' = res.outputs
           /\ generated' = IF res.ok THEN generated + 1 ELSE generated
    /\ queue' = Some(Tail(queue[1]))
    /\ UNCHANGED <<argv, disk, stderr, exitCode,
                   mdVars, orderVars, capVars, notesVars, editorVars, exportVars>>

\* after the loop
MainAllEnd ==
    /\ exitCode = None
    /\ queue = Some(<<>>)
    /\ IF generated = 0
       THEN /\ stderr' = Append(stderr, [message |-> "No captures.md found in any project",
                                         project |-> <<>>])
            /\ exitCode' = Some(1)
       ELSE /\ exitCode' = Some(0)
            /\ UNCHANGED stderr
    /\ UNCHANGED <<argv, disk, queue, generated, outputs,
                   mdVars, orderVars, capVars, notesVars, editorVars, exportVars>>

----------------------------------------------------------------------------
(* SpecGenerate: one run of main() over a screenshots tree.                *)

\* the child directories of screenshots/ that may exist, in sorted order
DirNames == <<<<"P">>, <<"p">>, <<"q">>>>

\* the values of --project
ProjectArgs == {DEFAULT_PROJECT, <<"p">>, <<" ", "Q">>, <<"/">>, <<"r">>}

\* the trees: screenshots/ missing, or some child directories and a
\* captures.md in screenshots/ itself and in some of the child directories
Disks ==
    {[root |-> FALSE, dirs |-> <<>>, logs |-> {}]}
      \cup {[root |-> TRUE,
             dirs |-> SelectSeq(DirNames, LAMBDA d : d \in present),
             logs |-> logs] :
               present \in SUBSET Range(DirNames),
               logs \in SUBSET ({DEFAULT_PROJECT} \cup Range(DirNames))}

InitGenerate ==
    /\ argv \in {[all_projects |-> TRUE, project |-> DEFAULT_PROJECT]}
                  \cup {[all_projects |-> FALSE, project |-> a] : a \in ProjectArgs}
    /\ disk \in {d \in Disks : d.logs \subseteq {DEFAULT_PROJECT} \cup Range(d.dirs)}
    /\ queue = None
    /\ generated = 0
    /\ outputs = <<>>
    /\ stderr = <<>>
    /\ exitCode = None
    /\ IdleMd /\ IdleOrder /\ IdleCaptures /\ IdleNotes /\ IdleEditor /\ IdleExport

NextGenerate ==
    \/ MainSingle
    \/ MainAllStart
    \/ MainAllStep
    \/ MainAllEnd

SpecGenerate == InitGenerate /\ [][NextGenerate]_vars

----------------------------------------------------------------------------
(* Claims about main() (SpecGenerate).                                     *)

\* the projects the run was asked to generate
Requested ==
    IF argv.all_projects THEN Range(discover_projects)
    ELSE {sanitize_project(argv.project)}

\* the run reported a failure for the project: a message on stderr or a
\* non-zero exit
FailureReported(project) ==
    \/ exitCode[1] # 0
    \/ \E k \in 1..Len(stderr) : stderr[k].project = project

\* C12: when main() has returned, every requested project without a capture
\* log has a failure reported and no output, and with --all-projects every
\* requested project with a capture log has its output.
\* (The claim as stated; with --all-projects a project without a capture log
\* is passed over in silence as soon as another project is generated.)
C12_MissingLogReported ==
    exitCode # None =>
        /\ \A project \in Requested :
              ~captures_file_exists(project) =>
                  /\ project \notin Range(outputs)
                  /\ FailureReported(project)
        /\ argv.all_projects =>
              \A project \in Requested :
                  captures_file_exists(project) => project \in Range(outputs)

----------------------------------------------------------------------------
(* Claims about the field lines of a capture log (SpecCaptures).           *)

\* the positions after the k-th marker and before the next one (or the end)
BlockLines(k) ==
    LET from == NthOf(MarkerLines, k)
        upto == IF k < Cardinality(MarkerLines) THEN NthOf(MarkerLines, k + 1)
                ELSE Len(CapLines) + 1
    IN  {i \in 1..Len(CapLines) : from < i /\ i < upto}

\* the recognized field lines of a key among the positions S
FieldLines(S, key) ==
    {i \in S : /\ capture_match(Strip(CapLines[i])) = None
               /\ field_match(Strip(CapLines[i])) # None
               /\ field_match(Strip(CapLines[i]))[1][1] = key}

\* the value a field line gives: trimmed, a Fichier without its backticks
FieldValue(i) ==
    LET fld == field_match(Strip(CapLines[i]))[1]
    IN  IF fld[1] = KEY_FICHIER THEN StripChars(Strip(fld[2]), {BACKTICK})
        ELSE Strip(fld[2])

\* the attribute a block of lines leaves on its record: absent without a
\* field line of the key in the block, otherwise the value of the last one
AttributeOf(k, key) ==
    LET set == FieldLines(BlockLines(k), key)
    IN  IF set = {} THEN None ELSE Some(FieldValue(Max(set)))

\* C13: an attribute of a record comes from the field lines between the
\* record's marker and the next marker and from nothing else: field lines of
\* another record's block, field lines before the first marker, blank lines
\* and unrecognized lines leave it as it is.
C13_FieldsSetCurrentRecordOnly ==
    capOut # None /\ Len(capOut[1]) = Cardinality(MarkerLines) =>
        \A k \in 1..Len(capOut[1]) :
            /\ capOut[1][k].fichier = AttributeOf(k, KEY_FICHIER)
            /\ capOut[1][k].url = AttributeOf(k, KEY_URL)
            /\ capOut[1][k].date = AttributeOf(k, KEY_DATE)

\* a field line before the first marker, a field line in the first record's
\* block, and a second record that stays without attributes
C13_Witness ==
    /\ capOut # None
    /\ Len(CapLines) = 4
    /\ MarkerLines = {2, 4}
    /\ FieldLines({1}, KEY_URL) = {1}
    /\ FieldLines({3}, KEY_DATE) = {3}
    /\ Len(capOut[1]) = 2
    /\ capOut[1][1] = [id |-> <<"1">>, fichier |-> None, url |-> None, date |-> Some(<<"d">>)]
    /\ capOut[1][2] = [id |-> <<"2">>, fichier |-> None, url |-> None, date |-> None]

----------------------------------------------------------------------------
(* SpecBlocks: a markdown text of whole lines, rendered at generation time *)
(* and in the browser.                                                     *)

MaxBlockLines == 4

\* a blank line, two text lines, two list lines, and a dash followed by a
\* blank (text once trimmed)
BlockSampleLines ==
    { <<>>,
      <<"a">>,
      <<"*", "b">>,
      <<"-", " ", "a">>,
      <<" ", "-", " ", "_", "<", "_", " ">>,
      <<"-", " ">> }

InitBlocks ==
    /\ mdText \in {JoinWith(<<"\n">>, ls) : ls \in SeqsUpTo(BlockSampleLines, MaxBlockLines)}
    /\ pyHtml = None
    /\ jsHtml = None
    /\ IdleOrder /\ IdleCaptures /\ IdleNotes /\ IdleEditor
    /\ IdleExport /\ IdleGen

SpecBlocks == InitBlocks /\ [][NextMd]_vars

----------------------------------------------------------------------------
(* Claims about the block structure of the rendered markdown (SpecBlocks). *)

\* the kind of a line: blank, a list item ("- " after trimming) or text
LineKind(line) ==
    IF Strip(line) = <<>> THEN "blank"
    ELSE IF StartsWith(Strip(line), <<"-", " ">>) THEN "item"
    ELSE "text"

\* the first lines of the maximal runs of consecutive lines of a kind
RunStarts(lines, kind) ==
    {i \in 1..Len(lines) :
        /\ LineKind(lines[i]) = kind
        /\ (i = 1 \/ LineKind(lines[i - 1]) # kind)}

\* the last line of the run that starts at line i
RunEnd(lines, i) ==
    Max({j \in i..Len(lines) : \A k \in i..j : LineKind(lines[k]) = LineKind(lines[i])})

\* the positions of out where the tag p begins
TagAt(out, p) == {i \in 1..Len(out) : MatchesAt(out, i, p)}

\* the list structure of out, rendered from lines
ListShape(lines, out) ==
    LET opens == TagAt(out, UL_OPEN)
        closes == TagAt(out, UL_CLOSE)
        items == TagAt(out, LI_OPEN) \cup TagAt(out, LI_CLOSE)
        paras == TagAt(out, P_OPEN) \cup TagAt(out, P_CLOSE)
        runs == RunStarts(lines, "item")
        \* the number of lists open just before position i
        depth(i) == Cardinality({j \in opens : j < i}) - Cardinality({j \in closes : j < i})
    IN  /\ \A i \in opens : depth(i) = 0
        /\ \A i \in closes : depth(i) = 1
        /\ depth(Len(out) + 1) = 0
        /\ \A i \in items : depth(i) = 1
        /\ \A i \in paras : depth(i) = 0
        /\ Cardinality(opens) = Cardinality(runs)
        /\ \A k \in 1..Cardinality(runs) :
              LET first == NthOf(runs, k)
                  open == NthOf(opens, k)
                  close == Min({j \in closes : j > open})
              IN  Cardinality({j \in TagAt(out, LI_OPEN) : open < j /\ j < close})
                    = RunEnd(lines, first) - first + 1

InlineOf(js, text) == IF js THEN js_inline(text) ELSE py_inline(text)

RECURSIVE ItemsHtml(_, _, _, _)
ItemsHtml(js, lines, i, last) ==
    IF i > last THEN <<>>
    ELSE LI_OPEN \o InlineOf(js, SubSeq(Strip(lines[i]), 3, Len(Strip(lines[i]))))
           \o LI_CLOSE \o ItemsHtml(js, lines, i + 1, last)

\* the block of the run of lines that starts at line i: one paragraph of the
\* trimmed lines joined by single spaces, or one list
BlockHtml(js, lines, i) ==
    IF LineKind(lines[i]) = "text"
    THEN P_OPEN
           \o InlineOf(js, JoinWith(<<" ">>, [k \in 1..(RunEnd(lines, i) - i + 1) |->
                                                 Strip(lines[i + k - 1])]))
           \o P_CLOSE
    ELSE UL_OPEN \o ItemsHtml(js, lines, i, RunEnd(lines, i)) \o UL_CLOSE

\* the blocks of the runs that start at or after line i, in source order
RECURSIVE BlocksHtml(_, _, _)
BlocksHtml(js, lines, i) ==
    IF i > Len(lines) THEN <<>>
    ELSE IF LineKind(lines[i]) = "blank" THEN BlocksHtml(js, lines, i + 1)
    ELSE BlockHtml(js, lines, i) \o BlocksHtml(js, lines, RunEnd(lines, i) + 1)

\* C15: the output is the concatenation, in source order, of one block per
\* maximal run of non-blank lines of a kind: a run of text lines is one
\* paragraph of its lines joined by single spaces, every line lies in exactly
\* one block, and blank or empty input gives the empty string.
C15_BlocksInSourceOrder ==
    /\ pyHtml # None => pyHtml[1] = BlocksHtml(FALSE, SplitLines(mdText), 1)
    /\ jsHtml # None => jsHtml[1] = BlocksHtml(TRUE, SplitNewline(mdText), 1)

\* two text lines and a list line: one paragraph "a a", then the list
C15_Witness ==
    /\ mdText = JoinWith(<<"\n">>, << <<"a">>, <<"a">>, <<"-", " ", "a">> >>)
    /\ pyHtml = Some(P_OPEN \o <<"a", " ", "a">> \o P_CLOSE
                       \o UL_OPEN \o LI_OPEN \o <<"a">> \o LI_CLOSE \o UL_CLOSE)
    /\ jsHtml = pyHtml

----------------------------------------------------------------------------
(* Claims about moving cards and about the toggle label (SpecEditor).      *)

\* C16: after any sequence of editor events the cards of the page are the
\* rendered records, each exactly once, and buildOrder() is a text of whole
\* lines whose names are the filenames of the cards that have one, one line
\* per card, in display order.
C16_CardsPermutedOrderFlat ==
    /\ Len(CardSeq) = Len(parsed)
    /\ \A i \in 1..Len(parsed) :
          Cardinality({k \in 1..Len(CardSeq) :
                          /\ CardSeq[k].id = parsed[i].id
                          /\ CardSeq[k].capture = raw_filename(parsed[i])}) = 1
    /\ EndsWith(buildOrder, <<"\n">>)
    /\ NamedLines(buildOrder) = NamedCards
    /\ Len(SplitLines(buildOrder)) = Max({1, Len(NamedCards)})

\* the second card was moved above the first, both with the filename f:
\* buildOrder names each of them
C16_Witness ==
    /\ editMode
    /\ Len(CardSeq) = 2
    /\ CardSeq[1].id = <<"2">> /\ CardSeq[2].id = <<"1">>
    /\ CardSeq[1].capture = FileF /\ CardSeq[2].capture = FileF
    /\ buildOrder = <<"f", "\n", "f", "\n">>

\* the place of the row at position i among the cards
CardIndex(i) == Cardinality({j \in CardPositions : j <= i})

\* the cards of a list of element children
CardsOf(children) == SelectSeq(children, LAMBDA node : node.kind = "row")

\* C19: in every reachable state in edit mode, a move-up click on a card that
\* is not the first card swaps it with the card before it, a move-down click
\* on a card that is not the last card swaps it with the card after it, and
\* a move-up on the first card or a move-down on the last card leaves the
\* page as it is.
\* (The claim as stated; the title and the toolbar are siblings of the rows,
\* and a row is swapped with them as with another row.)
C19_MoveSwapsNeighbourCards ==
    editMode =>
        \A i \in CardPositions :
            mainChildren[i].controls =>
                LET k == CardIndex(i)
                    up == moveCard(mainChildren, i, "up")
                    down == moveCard(mainChildren, i, "down")
                IN  /\ k > 1 => CardsOf(up) = Swap(CardSeq, k - 1, k)
                    /\ k = 1 => up = mainChildren
                    /\ k < Len(CardSeq) => CardsOf(down) = Swap(CardSeq, k, k + 1)
                    /\ k = Len(CardSeq) => down = mainChildren

\* C20: whenever no save request is pending, the toggle reads 'Sauvegarder'
\* in edit mode and 'Mode edition' otherwise.
\* (The claim as stated; a save that completes after the user has entered
\* edit mode again refutes it.)
C20_ToggleLabelFollowsMode ==
    pendingSaves = 0 =>
        toggleText = (IF editMode THEN "Sauvegarder" ELSE "Mode edition")

----------------------------------------------------------------------------
(* The exportPdf click handler.                                            *)

MaxExports == 2

export_begin_mutant(btn) == [disabled |-> FALSE, text |-> EXPORT_PDF_BUSY]

\* exportPdf.disabled = true; exportPdf.textContent = 'Export PDF...'
export_begin(btn) == [disabled |-> TRUE, text |-> EXPORT_PDF_BUSY]

\* finally: exportPdf.disabled = false; exportPdf.textContent = originalText
export_finally(btn, call) == [disabled |-> FALSE, text |-> call.originalText]

\* the calls in flight without the k-th
WithoutCall(calls, k) == SubSeq(calls, 1, k - 1) \o SubSeq(calls, k + 1, Len(calls))

\* click on #exportPdf (a disabled button receives no click): the handler
\* runs up to its await on fetch
ClickExport ==
    /\ ~exportBtn.disabled
    /\ exports < MaxExports
    /\ exports' = exports + 1
    /\ exportCalls' = Append(exportCalls, [originalText |-> exportBtn.text])
    /\ exportBtn' = export_begin(exportBtn)
    /\ UNCHANGED <<opened, mdVars, orderVars, capVars, notesVars, editorVars, genVars>>

\* an export request is answered with a 2xx response: window.open, finally
ExportSucceeds ==
    /\ \E k \in 1..Len(exportCalls) :
          /\ exportBtn' = export_finally(exportBtn, exportCalls[k])
          /\ exportCalls' = WithoutCall(exportCalls, k)
    /\ opened' = opened + 1
    /\ UNCHANGED <<exports, mdVars, orderVars, capVars, notesVars, editorVars, genVars>>

\* an export request fails (network error or non-2xx response): alert, finally
ExportFails ==
    /\ \E k \in 1..Len(exportCalls) :
          /\ exportBtn' = export_finally(exportBtn, exportCalls[k])
          /\ exportCalls' = WithoutCall(exportCalls, k)
    /\ alerts' = alerts + 1
    /\ UNCHANGED <<exports, opened, mainChildren, initialNotes, editMode, toggleText, saves,
                   pendingSaves, failedSaves, downloads, lastDownload,
                   mdVars, orderVars, capVars, notesVars, genVars>>

----------------------------------------------------------------------------
(* SpecExport: a generated page of one card, its export button and its     *)
(* edit toggle.                                                            *)

InitExport ==
    /\ parsed = <<RecordAt(1, Some(FileF))>>
    /\ orderFile = None
    /\ captures = None
    /\ mainChildren = render_main(parsed, EmptyDict)
    /\ initialNotes = notes_for_js(parsed, EmptyDict)
    /\ editMode = FALSE
    /\ toggleText = "Mode edition"
    /\ saves = 0
    /\ pendingSaves = 0
    /\ failedSaves = 0
    /\ alerts = 0
    /\ downloads = 0
    /\ lastDownload = None
    /\ IdleExport /\ IdleMd /\ IdleCaptures /\ IdleNotes /\ IdleGen

NextExport ==
    \/ ClickExport
    \/ ExportSucceeds
    \/ ExportFails
    \/ ClickEditToggle
    \/ SaveSucceeds
    \/ SaveFails

SpecExport == InitExport /\ [][NextExport]_vars

----------------------------------------------------------------------------
(* Claims about the export button (SpecExport).                            *)

\* C17: the export button is disabled and reads 'Export PDF...' exactly
\* while an export request is in flight, at most one is in flight at a time,
\* and after a completion, successful or not, the button is enabled and reads
\* 'Export PDF' again.
C17_ExportButtonBusy ==
    /\ Len(exportCalls) <= 1
    /\ exportBtn.disabled <=> exportCalls # <<>>
    /\ exportBtn.text = (IF exportCalls # <<>> THEN EXPORT_PDF_BUSY ELSE EXPORT_PDF)

\* one export has succeeded and one has failed: the button is as rendered
C17_Witness ==
    /\ exports = 2
    /\ opened = 1
    /\ alerts = failedSaves + 1
    /\ exportCalls = <<>>
    /\ exportBtn = [disabled |-> FALSE, text |-> EXPORT_PDF]

----------------------------------------------------------------------------
(* SpecRender: render_html on a list of records and a notes mapping.       *)

\* notes_by_capture as load_notes returns it (names and trimmed bodies): no
\* note, notes under the filenames f and g, an empty note, a note under the
\* empty name, notes under the ids 1 and 2
RenderNotes ==
    { EmptyDict,
      DictSet(EmptyDict, FileF, <<"a">>),
      DictSet(EmptyDict, FileF, <<>>),
      DictSet(DictSet(EmptyDict, FileG, <<"'">>), FileF, <<"-", " ", "a">>),
      DictSet(EmptyDict, <<>>, <<"a">>),
      DictSet(DictSet(EmptyDict, <<"1">>, <<"a">>), <<"2">>, <<"a">>) }

InitRender ==
    /\ parsed \in RecordLists
    /\ orderFile = None
    /\ captures = None
    /\ notesText = <<>>
    /\ notesOut \in {Some(notes) : notes \in RenderNotes}
    /\ IdleMd /\ IdleCaptures /\ IdleEditor /\ IdleExport /\ IdleGen

\* html_output = render_html(captures, ..., notes_by_capture=notes_map)
RenderHtml ==
    /\ mainChildren = <<>>
    /\ mainChildren' = render_main(parsed, notesOut[1])
    /\ initialNotes' = notes_for_js(parsed, notesOut[1])
    /\ UNCHANGED <<editMode, toggleText, saves, pendingSaves, failedSaves, alerts,
                   downloads, lastDownload, mdVars, orderVars, capVars, notesVars,
                   exportVars, genVars>>

NextRender == RenderHtml

SpecRender == InitRender /\ [][NextRender]_vars

----------------------------------------------------------------------------
(* Claims about render_html (SpecRender).                                  *)

\* the notes mapping holds, under the filename of the record, a text that is
\* not empty once trimmed
HasNote(rec) ==
    LET name == IF rec.fichier = None THEN <<>> ELSE rec.fichier[1]
    IN  /\ name \in DOMAIN notesOut[1]
        /\ Strip(notesOut[1][name]) # <<>>

\* C18: the rendered page has one card per record, in the order of the
\* records; a card has a note aside exactly when the notes mapping holds a
\* text that is not empty once trimmed under the record's filename (the empty
\* name for a record without one), whatever it holds under the record's id;
\* and initialNotes maps exactly the filenames of those records to their
\* notes.
C18_CardsAndNotes ==
    mainChildren # <<>> =>
        /\ Len(CardSeq) = Len(parsed)
        /\ \A k \in 1..Len(parsed) :
              /\ CardSeq[k].id = parsed[k].id
              /\ CardSeq[k].capture = (IF parsed[k].fichier = None THEN <<>>
                                       ELSE parsed[k].fichier[1])
              /\ CardSeq[k].aside # None <=> HasNote(parsed[k])
        /\ DOMAIN initialNotes = {CardSeq[k].capture :
                                     k \in {j \in 1..Len(parsed) : HasNote(parsed[j])}}
        /\ \A name \in DOMAIN initialNotes : initialNotes[name] = notesOut[1][name]

\* three records, the first and the third with the filename f, the second
\* without a filename, and a note under f: two asides, one entry
C18_Witness ==
    /\ mainChildren # <<>>
    /\ Len(parsed) = 3
    /\ parsed[1].fichier = Some(FileF)
    /\ parsed[2].fichier = None
    /\ parsed[3].fichier = Some(FileF)
    /\ notesOut = Some(DictSet(EmptyDict, FileF, <<"a">>))
    /\ CardSeq[1].aside = Some(P_OPEN \o <<"a">> \o P_CLOSE)
    /\ CardSeq[2].aside = None
    /\ CardSeq[3].aside # None
    /\ DOMAIN initialNotes = {FileF}

----------------------------------------------------------------------------
(* SpecRoundTrip: the order saved from the editor, applied by the next     *)
(* generation.                                                             *)

\* click on #editToggle outside edit mode
EnterEditMode ==
    /\ ~editMode
    /\ ClickEditToggle

\* click on #editToggle in edit mode, the request answered at once: the
\* order of the request body, buildOrder(), becomes the order file, and the
\* next generation applies it to the records of the capture log
SaveAndRegenerate ==
    /\ editMode
    /\ saves < MaxSaves
    /\ saves' = saves + 1
    /\ editMode' = FALSE
    /\ toggleText' = "Mode edition"
    /\ orderFile' = Some(buildOrder)
    /\ captures' = Some(apply_order(parsed, Some(buildOrder)))
    /\ UNCHANGED <<parsed, mainChildren, initialNotes, pendingSaves, failedSaves, alerts,
                   downloads, lastDownload, mdVars, capVars, notesVars,
                   exportVars, genVars>>

InitRoundTrip ==
    /\ parsed \in EditorCaptureLists
    /\ orderFile = None
    /\ captures = None
    /\ mainChildren = render_main(parsed, EmptyDict)
    /\ initialNotes = notes_for_js(parsed, EmptyDict)
    /\ editMode = FALSE
    /\ toggleText = "Mode edition"
    /\ saves = 0
    /\ pendingSaves = 0
    /\ failedSaves = 0
    /\ alerts = 0
    /\ downloads = 0
    /\ lastDownload = None
    /\ IdleMd /\ IdleCaptures /\ IdleNotes /\ IdleExport /\ IdleGen

NextRoundTrip ==
    \/ EnterEditMode
    \/ ClickMove
    \/ SaveAndRegenerate

SpecRoundTrip == InitRoundTrip /\ [][NextRoundTrip]_vars

----------------------------------------------------------------------------
(* Claims about the saved order (SpecRoundTrip).                           *)

\* the ids of a list of records or of cards
IdsOf(items) == [k \in 1..Len(items) |-> items[k].id]

\* C21: once the order is saved and applied, the records come out of
\* apply_order in the card order the user saw when saving, also when records
\* share a filename or have none.
\* (The claim as stated; two cards with one filename, or a card without a
\* filename that is not below every named card, refute it.)
C21_OrderRoundTrip ==
    ~editMode /\ captures # None => IdsOf(captures[1]) = IdsOf(CardSeq)

====
